---- MODULE Spec2Model ----
(***************************************************************************)
(* Model of the header-only argument parser in src/argparse.h.             *)
(*                                                                         *)
(* A std::string is a sequence of one-character strings.  The parser       *)
(* object is the four containers of class ArgumentParser; the caller's     *)
(* storage cells (the bool&, int& and std::string& handed to the           *)
(* registration calls) are the function `cell`.  Every public member       *)
(* function is one action.  Three member functions flow off their end      *)
(* without a return statement; the value the caller then reads is          *)
(* undefined and is modelled as a free choice in BOOLEAN.                  *)
(*                                                                         *)
(* Two identifiers of the source do not name anything (option_rule at      *)
(* line 142, `nor` at line 158); they are read as optional_rule and `not`, *)
(* the only declared names they can stand for.                             *)
(***************************************************************************)
EXTENDS Integers, Sequences, FiniteSets, TLC

(***************************************************************************)
(* Bounds of the model                                                      *)
(***************************************************************************)
\* longest argument name tried by the registration calls
MaxLen == 2
\* number of calls made on one parser object (registration, conversion)
MaxCalls == 2
\* longest token handed to a TokenParser
MaxTokLen == 2
\* number of calls in the end-to-end scenarios (three registrations, one parse)
MaxScenarioCalls == 4
\* longest argument vector (program name excluded) handed to parse_args
MaxArgc == 4

\* characters argument names are built from: dash, letter, digit, underscore
NameAlphabet == {"-", "a", "1", "_"}
\* characters tokens are built from: signs, digits, dot, letter, blank
TokAlphabet == {"-", "+", "4", "7", ".", "a", " "}

\* all strings over alpha of length at most n
Strs(alpha, n) == UNION {[1..k -> alpha] : k \in 0..n}

NameInputs == Strs(NameAlphabet, MaxLen)

(***************************************************************************)
(* Character classes and std::regex                                         *)
(***************************************************************************)
LowerCase == {"a","b","c","d","e","f","g","h","i","j","k","l","m",
              "n","o","p","q","r","s","t","u","v","w","x","y","z"}
UpperCase == {"A","B","C","D","E","F","G","H","I","J","K","L","M",
              "N","O","P","Q","R","S","T","U","V","W","X","Y","Z"}
DigitSeq == <<"0","1","2","3","4","5","6","7","8","9">>
Digits == {DigitSeq[i] : i \in 1..10}
\* isspace in the "C" locale; the horizontal blank stands for the class
WhiteSpace == {" "}

\* A regular expression of the shape used by the source: a sequence of
\* bracket expressions, each with a quantifier "1" (exactly once), "+" or "*".
flag_rule_mutant == << [cls |-> {"-"}, q |-> "1"],
                       [cls |-> {"-"} \cup LowerCase \cup UpperCase \cup Digits, q |-> "+"] >>
\* std::regex("-[\-a-zA-Z]+"); the unknown escape \- of the literal is a dash
flag_rule == << [cls |-> {"-"}, q |-> "1"],
                [cls |-> {"-"} \cup LowerCase \cup UpperCase, q |-> "+"] >>
optional_rule == flag_rule
\* std::regex("[_a-zA-Z][_a-zA-Z0-9]*")
positional_rule == << [cls |-> {"_"} \cup LowerCase \cup UpperCase, q |-> "1"],
                      [cls |-> {"_"} \cup LowerCase \cup UpperCase \cup Digits, q |-> "*"] >>

\* does r[j..] match exactly s[i..] ?
RECURSIVE MatchFrom(_, _, _, _)
MatchFrom(s, i, r, j) ==
  IF j > Len(r) THEN i > Len(s)
  ELSE LET e == r[j]
           here == i <= Len(s) /\ s[i] \in e.cls
       IN CASE e.q = "1" -> here /\ MatchFrom(s, i + 1, r, j + 1)
            [] e.q = "+" -> here /\ (MatchFrom(s, i + 1, r, j) \/ MatchFrom(s, i + 1, r, j + 1))
            [] e.q = "*" -> MatchFrom(s, i, r, j + 1) \/ (here /\ MatchFrom(s, i + 1, r, j))

\* std::regex_match: the whole string must match
regex_match(s, r) == MatchFrom(s, 1, r, 1)

(***************************************************************************)
(* State                                                                    *)
(***************************************************************************)
VARIABLES
  m_flags_dict,       \* name -> the bool cell it is bound to
  m_optionals_dict,   \* name -> the cell its TokenParser writes
  m_positional_dict,  \* set of positional names
  m_positional_vect,  \* sequence of cells, one TokenParser each
  cell,               \* the caller's storage cells
  cerr,               \* what the last call wrote to std::cerr
  call,               \* the last call: operation, arguments, value returned
  log,                \* every registration call that passed both checks
  writes,             \* the stores the last call made into caller cells
  ncalls              \* calls made so far

vars == << m_flags_dict, m_optionals_dict, m_positional_dict, m_positional_vect,
           cell, cerr, call, log, writes, ncalls >>

registry == << m_flags_dict, m_optionals_dict, m_positional_dict, m_positional_vect >>

\* the caller's cells: one bool, one int, one std::string
BoolCells == {"v"}
IntCells == {"c"}
StringCells == {"n"}
ValueCells == IntCells \cup StringCells

EmptyMap == [x \in {} |-> "none"]
NoOutput == [msg |-> "none", name |-> <<>>]
NoCall == [op |-> "none", name |-> <<>>, ref |-> "none", argv |-> <<>>, ret |-> FALSE]

\* what a call record looks like: name is the argument_name of a registration
\* or the input of a conversion, argv the tokens after the program name
Call(op, name, ref, argv, ret) ==
  [op |-> op, name |-> name, ref |-> ref, argv |-> argv, ret |-> ret]

\* ArgumentParser::ArgumentParser: the containers are default-constructed
Init ==
  /\ m_flags_dict = EmptyMap
  /\ m_optionals_dict = EmptyMap
  /\ m_positional_dict = {}
  /\ m_positional_vect = <<>>
  /\ cell = [v |-> FALSE, c |-> 0, n |-> <<>>]
  /\ cerr = NoOutput
  /\ call = NoCall
  /\ log = {}
  /\ writes = <<>>
  /\ ncalls = 0

(***************************************************************************)
(* Registration                                                             *)
(***************************************************************************)
\* a call that fails one of its checks: a message, false, nothing else
Rejected(op, argument_name, ref, msg) ==
  /\ cerr' = [msg |-> msg, name |-> argument_name]
  /\ call' = Call(op, argument_name, ref, <<>>, FALSE)
  /\ UNCHANGED << registry, log >>

\* a call that passes its checks and flows off the end of the function
FellThrough(op, argument_name, ref) ==
  \E ret \in BOOLEAN :
    /\ cerr' = NoOutput
    /\ call' = Call(op, argument_name, ref, <<>>, ret)
    /\ log' = log \cup {[op |-> op, name |-> argument_name, ref |-> ref, ret |-> ret]}

add_flag(argument_name, ref) ==
  /\ writes' = <<>>
  /\ ncalls' = ncalls + 1
  /\ UNCHANGED cell
  /\ \/ /\ ~regex_match(argument_name, flag_rule)
        /\ Rejected("add_flag", argument_name, ref, "not an appropriate flag name")
     \/ /\ regex_match(argument_name, flag_rule)
        /\ argument_name \in DOMAIN m_flags_dict \cup DOMAIN m_optionals_dict
        /\ Rejected("add_flag", argument_name, ref, "already registered")
     \/ /\ regex_match(argument_name, flag_rule)
        /\ argument_name \notin DOMAIN m_flags_dict \cup DOMAIN m_optionals_dict
        /\ m_flags_dict' = (argument_name :> ref) @@ m_flags_dict
        /\ FellThrough("add_flag", argument_name, ref)
        /\ UNCHANGED << m_optionals_dict, m_positional_dict, m_positional_vect >>

add_option(argument_name, ref) ==
  /\ writes' = <<>>
  /\ ncalls' = ncalls + 1
  /\ UNCHANGED cell
  /\ \/ /\ ~regex_match(argument_name, optional_rule)
        /\ Rejected("add_option", argument_name, ref, "not an appropriate option name")
     \/ /\ regex_match(argument_name, optional_rule)
        /\ argument_name \in DOMAIN m_flags_dict \cup DOMAIN m_optionals_dict
        /\ Rejected("add_option", argument_name, ref, "already registered")
     \/ /\ regex_match(argument_name, optional_rule)
        /\ argument_name \notin DOMAIN m_flags_dict \cup DOMAIN m_optionals_dict
        /\ FellThrough("add_option", argument_name, ref)
        /\ UNCHANGED registry

add_positional(argument_name, ref) ==
  /\ writes' = <<>>
  /\ ncalls' = ncalls + 1
  /\ UNCHANGED cell
  /\ \/ /\ ~regex_match(argument_name, positional_rule)
        /\ Rejected("add_positional", argument_name, ref, "not an appropriate positional name")
     \/ /\ regex_match(argument_name, positional_rule)
        /\ argument_name \in m_positional_dict
        /\ Rejected("add_positional", argument_name, ref, "another positional already registered")
     \/ /\ regex_match(argument_name, positional_rule)
        /\ argument_name \notin m_positional_dict
        /\ m_positional_dict' = m_positional_dict \cup {argument_name}
        /\ FellThrough("add_positional", argument_name, ref)
        /\ UNCHANGED << m_flags_dict, m_optionals_dict, m_positional_vect >>

\* the registration calls of a program, names drawn from NameInputs; the type
\* of the cell plays no part in registration, so options are bound to the int
\* cell and positionals to the string cell
RegisterFlag ==
  ncalls < MaxCalls /\ \E name \in NameInputs, ref \in BoolCells : add_flag(name, ref)
RegisterOption ==
  ncalls < MaxCalls /\ \E name \in NameInputs, ref \in IntCells : add_option(name, ref)
RegisterPositional ==
  ncalls < MaxCalls /\ \E name \in NameInputs, ref \in StringCells : add_positional(name, ref)

Next == RegisterFlag \/ RegisterOption \/ RegisterPositional

Spec == Init /\ [][Next]_vars

(***************************************************************************)
(* Conversion                                                               *)
(***************************************************************************)
\* std::numeric_limits<int>::max(), the bound std::stoi checks its result against
INT_MAX == 2147483647

DigitVal(ch) == (CHOOSE k \in 1..10 : DigitSeq[k] = ch) - 1

\* first index at or after i that does not hold white space
RECURSIVE SkipSpace(_, _)
SkipSpace(s, i) ==
  IF i <= Len(s) /\ s[i] \in WhiteSpace THEN SkipSpace(s, i + 1) ELSE i

\* first index at or after i that does not hold a digit
RECURSIVE DigitsEnd(_, _)
DigitsEnd(s, i) ==
  IF i <= Len(s) /\ s[i] \in Digits THEN DigitsEnd(s, i + 1) ELSE i

\* the digits s[j..k-1] accumulated onto acc, in the sign of the result;
\* over is set when the value leaves [INT_MIN, INT_MAX]
RECURSIVE Accumulate(_, _, _, _, _)
Accumulate(s, j, k, neg, acc) ==
  IF j = k THEN [over |-> FALSE, val |-> acc]
  ELSE LET d == DigitVal(s[j])
           tooBig == IF neg
                     THEN \/ acc < -(INT_MAX \div 10)
                          \/ (acc = -(INT_MAX \div 10) /\ d > (INT_MAX % 10) + 1)
                     ELSE \/ acc > INT_MAX \div 10
                          \/ (acc = INT_MAX \div 10 /\ d > INT_MAX % 10)
       IN IF tooBig THEN [over |-> TRUE, val |-> 0]
          ELSE Accumulate(s, j + 1, k, neg, IF neg THEN acc * 10 - d ELSE acc * 10 + d)

\* std::stoi(s), base 10: leading white space is skipped, one sign is taken,
\* the longest run of digits is converted and whatever follows it is ignored
stoi(s) ==
  LET i == SkipSpace(s, 1)
      signed == i <= Len(s) /\ s[i] \in {"+", "-"}
      neg == i <= Len(s) /\ s[i] = "-"
      j == IF signed THEN i + 1 ELSE i
      k == DigitsEnd(s, j)
  IN IF k = j THEN [threw |-> "invalid_argument", val |-> 0]
     ELSE LET m == Accumulate(s, j, k, neg, 0)
          IN IF m.over THEN [threw |-> "out_of_range", val |-> 0]
             ELSE [threw |-> "none", val |-> m.val]

\* std::optional<T>
nullopt(dflt) == [has |-> FALSE, val |-> dflt]
Some(x) == [has |-> TRUE, val |-> x]

\* ParseTraits<int>::parse
ParseTraits_int(s) ==
  LET r == stoi(s) IN IF r.threw = "none" THEN Some(r.val) ELSE nullopt(0)

\* ParseTraits<std::string>::parse
ParseTraits_string(s) == Some(s)

\* ParseTraits<T>::parse for the T of the cell ref
ParseTraits(ref, s) ==
  IF ref \in IntCells THEN ParseTraits_int(s) ELSE ParseTraits_string(s)

\* TokenParser<T>::parse on a parser constructed over the cell ref
TokenParser_parse(ref, input) ==
  LET result == ParseTraits(ref, input)
  IN /\ ncalls' = ncalls + 1
     /\ cerr' = NoOutput
     /\ UNCHANGED << registry, log >>
     /\ \/ /\ result.has
           /\ cell' = [cell EXCEPT ![ref] = result.val]
           /\ writes' = << [cell |-> ref, val |-> result.val] >>
           /\ call' = Call("TokenParser_parse", input, ref, <<>>, TRUE)
        \/ /\ ~result.has
           /\ UNCHANGED cell
           /\ writes' = <<>>
           /\ call' = Call("TokenParser_parse", input, ref, <<>>, FALSE)

\* the tokens of section 8 of the description and the ends of the int range
ExampleTokens ==
  { <<"4","2">>, <<"-","7">>, <<"a","b","c">>, <<"3",".","5">>,
    <<"2","1","4","7","4","8","3","6","4","7">>,
    <<"2","1","4","7","4","8","3","6","4","8">>,
    <<"-","2","1","4","7","4","8","3","6","4","8">>,
    <<"-","2","1","4","7","4","8","3","6","4","9">> }

TokenInputs == Strs(TokAlphabet, MaxTokLen) \cup ExampleTokens

ConvertInt ==
  ncalls < MaxCalls /\ \E input \in TokenInputs, ref \in IntCells : TokenParser_parse(ref, input)
ConvertString ==
  ncalls < MaxCalls /\ \E input \in TokenInputs, ref \in StringCells : TokenParser_parse(ref, input)

NextConv == ConvertInt \/ ConvertString

SpecConv == Init /\ [][NextConv]_vars

(***************************************************************************)
(* Parsing                                                                  *)
(***************************************************************************)
\* a parse loop that stores true at every occurrence of a flag token
parse_args_mutant(argc, argv) ==
  LET IsFlag(t) == t \in DOMAIN m_flags_dict
      hits == SelectSeq(argv, IsFlag)
  IN /\ ncalls' = ncalls + 1
     /\ call' = Call("parse_args", <<>>, "none", argv, FALSE)
     /\ cerr' = NoOutput
     /\ writes' = [w \in 1..Len(hits) |-> [cell |-> m_flags_dict[hits[w]], val |-> TRUE]]
     /\ cell' = [r \in DOMAIN cell |->
                   IF \E w \in 1..Len(hits) : m_flags_dict[hits[w]] = r THEN TRUE ELSE cell[r]]
     /\ UNCHANGED << registry, log >>

\* ArgumentParser::parse_args; argv is argv[1..argc-1]
parse_args(argc, argv) ==
  /\ ncalls' = ncalls + 1
  /\ call' = Call("parse_args", <<>>, "none", argv, FALSE)
  /\ cerr' = NoOutput
  /\ writes' = <<>>
  /\ UNCHANGED << registry, cell, log >>

\* the names and tokens of the end-to-end scenarios, shortened:
\* --verbose, --count, name, "5" and "alice"
ScenarioFlagNames == { <<"-","v">> }
ScenarioOptionNames == { <<"-","c">> }
ScenarioPositionalNames == { <<"n">> }
ScenarioTokens == { <<"-","v">>, <<"-","c">>, <<"5">>, <<"a","l">> }
ArgvInputs == UNION {[1..k -> ScenarioTokens] : k \in 0..MaxArgc}

\* a scenario makes at most MaxScenarioCalls calls and parse_args is its last:
\* bindings are registered first and consumed by the one parse that follows
InScenario == ncalls < MaxScenarioCalls /\ call.op # "parse_args"

ScenarioFlag ==
  InScenario
    /\ \E name \in ScenarioFlagNames, ref \in BoolCells : add_flag(name, ref)
ScenarioOption ==
  InScenario
    /\ \E name \in ScenarioOptionNames, ref \in IntCells : add_option(name, ref)
ScenarioPositional ==
  InScenario
    /\ \E name \in ScenarioPositionalNames, ref \in StringCells : add_positional(name, ref)
ScenarioConvert ==
  InScenario
    /\ \E input \in ScenarioTokens, ref \in ValueCells : TokenParser_parse(ref, input)
ParseArgs ==
  InScenario /\ \E argv \in ArgvInputs : parse_args(Len(argv) + 1, argv)

NextParse == ScenarioFlag \/ ScenarioOption \/ ScenarioPositional \/ ScenarioConvert \/ ParseArgs

SpecParse == Init /\ [][NextParse]_vars

(***************************************************************************)
(* What the description says, stated without the model's operators          *)
(***************************************************************************)
Letters == LowerCase \cup UpperCase

\* -[-a-zA-Z]+ : a dash, then one or more letters or dashes
FlagGrammar(s) ==
  /\ Len(s) >= 2
  /\ s[1] = "-"
  /\ \A i \in 2..Len(s) : s[i] = "-" \/ s[i] \in Letters

\* [_a-zA-Z][_a-zA-Z0-9]* : an identifier
IdentGrammar(s) ==
  /\ Len(s) >= 1
  /\ s[1] = "_" \/ s[1] \in Letters
  /\ \A i \in 2..Len(s) : s[i] = "_" \/ s[i] \in Letters \/ s[i] \in Digits

\* the digits of a literal, its sign removed
LiteralBody(s) == IF Len(s) >= 1 /\ s[1] \in {"+", "-"} THEN Tail(s) ELSE s

RECURSIVE StripZeros(_)
StripZeros(b) == IF Len(b) > 1 /\ b[1] = "0" THEN StripZeros(Tail(b)) ELSE b

\* a <= b for two digit strings of one length
DigitsLE(a, b) ==
  \/ a = b
  \/ \E i \in 1..Len(a) : /\ \A j \in 1..(i - 1) : a[j] = b[j]
                          /\ DigitVal(a[i]) < DigitVal(b[i])

\* an optional sign and base-10 digits, nothing else, within the range of int
IsIntLiteral(s) ==
  LET b == LiteralBody(s)
      sig == StripZeros(b)
      limit == IF Len(s) >= 1 /\ s[1] = "-"
               THEN <<"2","1","4","7","4","8","3","6","4","8">>
               ELSE <<"2","1","4","7","4","8","3","6","4","7">>
  IN /\ Len(b) >= 1
     /\ \A i \in 1..Len(b) : b[i] \in Digits
     /\ Len(sig) < 10 \/ (Len(sig) = 10 /\ DigitsLE(sig, limit))

RECURSIVE LiteralSum(_, _, _)
LiteralSum(b, neg, acc) ==
  IF b = <<>> THEN acc
  ELSE LiteralSum(Tail(b), neg,
                  IF neg THEN acc * 10 - DigitVal(b[1]) ELSE acc * 10 + DigitVal(b[1]))

\* the integer an int literal denotes
LiteralValue(s) == LiteralSum(LiteralBody(s), Len(s) >= 1 /\ s[1] = "-", 0)

\* the calls that passed validation, by kind
Accepted(op) == {e \in log : e.op = op}
AcceptedNames(op) == {e.name : e \in Accepted(op)}
\* the names a registration call of one of the kinds returned true for
SucceededNames(ops) == {e.name : e \in {x \in log : x.op \in ops /\ x.ret}}
\* every registration so far returned true to its caller
AllSucceeded == \A e \in log : e.ret
\* a step that is a call of op
IsCall(op) == ncalls' = ncalls + 1 /\ call'.op = op

(***************************************************************************)
(* Registration claims                                                      *)
(***************************************************************************)
\* C2: for a name matching the flag grammar that is not yet registered, the
\* first add_flag call returns success and stores the binding, and every later
\* add_flag call with that name returns failure.
C2_FlagRegistersExactlyOnce ==
  [][ (IsCall("add_flag") /\ FlagGrammar(call'.name)) =>
        IF call'.name \in DOMAIN m_flags_dict
        THEN ~call'.ret /\ cerr'.msg = "already registered"
        ELSE call'.ret /\ call'.name \in DOMAIN m_flags_dict' ]_vars

\* C3: flags and options share one namespace: add_flag or add_option with a
\* name that an earlier add_flag or add_option call registered successfully fails.
C3_SharedNamespace ==
  [][ ((IsCall("add_flag") \/ IsCall("add_option"))
        /\ call'.name \in SucceededNames({"add_flag", "add_option"})) => ~call'.ret ]_vars

\* C4: for every string that does not match -[-a-zA-Z]+, add_flag and add_option
\* return failure with the invalid-name diagnostic and leave the flag and option
\* registries exactly as they were.
C4_InvalidNameRejected ==
  [][ ((IsCall("add_flag") \/ IsCall("add_option")) /\ ~FlagGrammar(call'.name)) =>
        /\ ~call'.ret
        /\ cerr'.msg \in {"not an appropriate flag name", "not an appropriate option name"}
        /\ cerr'.name = call'.name
        /\ m_flags_dict' = m_flags_dict
        /\ m_optionals_dict' = m_optionals_dict ]_vars

\* an invalid flag or option name was just refused while an earlier flag stays registered
C4_Witness ==
  /\ call.op \in {"add_flag", "add_option"}
  /\ call.name = <<"-", "1">>
  /\ ~call.ret
  /\ DOMAIN m_flags_dict # {}

\* C5: add_positional returns success exactly when the name is an identifier and
\* no earlier successful add_positional call used it, whatever flags and options
\* are registered.
C5_PositionalOutcome ==
  [][ IsCall("add_positional") =>
        (call'.ret <=> (/\ IdentGrammar(call'.name)
                        /\ call'.name \notin SucceededNames({"add_positional"}))) ]_vars

\* C10: every validated option name has a parser in the option dictionary, and
\* the positional vector holds one parser per name of the positional set.
C10_BindingsStored ==
  /\ DOMAIN m_optionals_dict = AcceptedNames("add_option")
  /\ Len(m_positional_vect) = Cardinality(m_positional_dict)

(***************************************************************************)
(* Conversion claims                                                        *)
(***************************************************************************)
\* C6: integer conversion yields a value exactly for an optional sign followed by
\* base-10 digits within the range of int, and that value is the literal's; it
\* fails for every other token.
C6_IntConversion ==
  (call.op = "TokenParser_parse" /\ call.ref \in IntCells) =>
     /\ call.ret <=> IsIntLiteral(call.name)
     /\ call.ret => cell[call.ref] = LiteralValue(call.name)

(***************************************************************************)
(* Parsing claims                                                           *)
(***************************************************************************)
\* the orders in which a flag, an option with its value and one other token come
Arrangements(f, o, val, p) ==
  { <<f, o, val, p>>, <<f, p, o, val>>, <<o, val, f, p>>,
    <<o, val, p, f>>, <<p, f, o, val>>, <<p, o, val, f>> }

\* the registrations of the scenarios: a flag, an int option, a string positional
ScenarioRegistered(f, o) ==
  /\ f \in DOMAIN m_flags_dict
  /\ \E e \in Accepted("add_option") : e.name = o /\ e.ref \in IntCells
  /\ Cardinality(m_positional_dict) = 1
  /\ \E e \in Accepted("add_positional") : e.ref \in StringCells

\* C1: with a flag, an int option and a string positional registered, parse_args
\* on the flag token, the option name followed by an int literal, and one other
\* token returns success with the flag cell true, the option cell holding the
\* integer and the positional cell holding the other token.
C1_ScenarioSucceeds ==
  \A f \in ScenarioTokens, o \in ScenarioTokens, val \in ScenarioTokens, p \in ScenarioTokens :
    ( /\ call.op = "parse_args"
      /\ AllSucceeded
      /\ ScenarioRegistered(f, o)
      /\ IsIntLiteral(val)
      /\ p \notin DOMAIN m_flags_dict \cup AcceptedNames("add_option")
      /\ call.argv \in Arrangements(f, o, val, p) ) =>
        /\ call.ret
        /\ cell[m_flags_dict[f]] = TRUE
        /\ \A e \in Accepted("add_option") : e.name = o => cell[e.ref] = LiteralValue(val)
        /\ \A e \in Accepted("add_positional") : cell[e.ref] = p

\* the tokens of argv[i..] that section 4.3 takes as positional values
RECURSIVE PositionalTokens(_, _)
PositionalTokens(argv, i) ==
  IF i > Len(argv) THEN 0
  ELSE IF argv[i] \in DOMAIN m_flags_dict THEN PositionalTokens(argv, i + 1)
  ELSE IF argv[i] \in AcceptedNames("add_option") THEN PositionalTokens(argv, i + 2)
  ELSE 1 + PositionalTokens(argv, i + 1)

\* every option name of argv is followed by a token its type converts
OptionsWellFormed(argv) ==
  \A i \in 1..Len(argv) : \A e \in Accepted("add_option") :
    (e.name = argv[i] /\ (i = 1 \/ argv[i - 1] \notin AcceptedNames("add_option"))) =>
       (i < Len(argv) /\ IF e.ref \in IntCells THEN IsIntLiteral(argv[i + 1]) ELSE TRUE)

\* C7: parse_args succeeds only if the tokens taken as positional values are as
\* many as the registered positionals; with fewer it fails reporting the missing
\* positional, with more it fails reporting the excess token.
C7_PositionalCount ==
  (call.op = "parse_args" /\ AllSucceeded) =>
    LET k == PositionalTokens(call.argv, 1)
        n == Cardinality(m_positional_dict)
    IN /\ call.ret => k = n
       /\ (k < n /\ OptionsWellFormed(call.argv)) =>
             (~call.ret /\ cerr.msg = "missing positional")
       /\ (k > n /\ OptionsWellFormed(call.argv)) =>
             (~call.ret /\ cerr.msg = "excess token")

\* C8: when the token after a registered option name does not convert to the
\* option's type, parse_args fails, reports the conversion failure naming that
\* option, and the option's cell is not written.
C8_ConversionFailureReported ==
  \A i \in 1..MaxArgc : \A e \in Accepted("add_option") :
    ( /\ call.op = "parse_args"
      /\ AllSucceeded
      /\ i < Len(call.argv)
      /\ call.argv[i] = e.name
      /\ \A j \in 1..(i - 1) : call.argv[j] \in DOMAIN m_flags_dict
      /\ e.ref \in IntCells
      /\ call.argv[i + 1] \notin DOMAIN m_flags_dict \cup AcceptedNames("add_option")
      /\ ~IsIntLiteral(call.argv[i + 1]) ) =>
        /\ ~call.ret
        /\ cerr.msg = "conversion failure"
        /\ cerr.name = e.name
        /\ \A w \in 1..Len(writes) : writes[w].cell # e.ref

\* C9: during one parse_args invocation no caller cell is written more than
\* once, a flag cell is only written with true, and a value cell is written only
\* with the conversion of a token of the argument vector; a TokenParser writes
\* its cell once when it succeeds and not at all when it fails.
C9_WriteOnce ==
  /\ \A r \in BoolCells \cup ValueCells :
       Cardinality({w \in 1..Len(writes) : writes[w].cell = r}) <= 1
  /\ call.op = "parse_args" =>
       \A w \in 1..Len(writes) :
         IF writes[w].cell \in BoolCells THEN writes[w].val = TRUE
         ELSE \E i \in 1..Len(call.argv) :
                ParseTraits(writes[w].cell, call.argv[i]) = Some(writes[w].val)
  /\ call.op = "TokenParser_parse" =>
       /\ call.ret <=> writes # <<>>
       /\ call.ret => /\ writes[1].cell = call.ref
                      /\ cell[call.ref] = writes[1].val
                      /\ ParseTraits(call.ref, call.name) = Some(writes[1].val)

\* parse_args has run over an argument vector that repeats a registered flag token
C9_Witness ==
  /\ call.op = "parse_args"
  /\ \E i \in 1..Len(call.argv) : \E j \in 1..Len(call.argv) :
       i < j /\ call.argv[i] = call.argv[j] /\ call.argv[i] \in DOMAIN m_flags_dict

====
